---- MODULE Spec2Model ----
(***************************************************************************)
(* Model of src/huffman.py: Huffman encoding and decoding with the .huff   *)
(* container  [header length (4 bytes)][header JSON bytes][payload bytes]. *)
(*                                                                         *)
(* Representation of the Python values:                                    *)
(*   str    a sequence of one-character strings ("ab" is <<"a","b">>);     *)
(*          a bitstring is a str over "0" and "1";                         *)
(*   bytes  a sequence of integers in 0..255;                              *)
(*   dict   a sequence of <<key, value>> pairs with distinct keys, in      *)
(*          insertion order (the order json.dumps and .items() follow);    *)
(*   Node   a record in the arena `nodes`; a reference to a Node is its    *)
(*          index in the arena and the reference None is 0.                *)
(***************************************************************************)
EXTENDS Integers, Sequences, FiniteSets, TLC

(* ------------------------------ bounds -------------------------------- *)

\* longest input text drawn from Alphabet
MaxLen == 4

\* longest bitstring handed to bits_to_bytes on its own
MaxBits == 9

\* largest "padding" value a decoded header may carry
MaxPadding == 9

\* the symbols the bounded input texts are made of; the quote is a symbol
\* that json.dumps has to escape
Alphabet == {"a", "b", "\""}

\* the example text of the documentation, a:5 b:2 r:2 c:1 d:1
Abracadabra == <<"a","b","r","a","c","a","d","a","b","r","a">>

(* --------------------------- Python helpers --------------------------- *)

\* the value None where a str is expected (Node.symbol of an internal node)
None == <<"None">>

\* the reference None
NoRef == 0

Range(s) == {s[i] : i \in 1..Len(s)}

\* s[:n] for 0 <= n
Take(s, n) == SubSeq(s, 1, IF n < Len(s) THEN n ELSE Len(s))

\* s[:-k] for k > 0
DropLast(s, k) == SubSeq(s, 1, IF Len(s) > k THEN Len(s) - k ELSE 0)

\* s[n:] for 0 <= n
Drop(s, n) == SubSeq(s, n + 1, Len(s))

\* dict operations
Keys(d) == {d[i][1] : i \in 1..Len(d)}

HasKey(d, k) == \E i \in 1..Len(d) : d[i][1] = k

Get(d, k) == d[CHOOSE i \in 1..Len(d) : d[i][1] = k][2]

\* d[k] = v
DictSet(d, k, v) ==
    IF HasKey(d, k)
    THEN [i \in 1..Len(d) |-> IF d[i][1] = k THEN <<k, v>> ELSE d[i]]
    ELSE Append(d, <<k, v>>)

\* the mapping a dict stands for, whatever its insertion order (dict ==)
AsMap(d) == [k \in Keys(d) |-> Get(d, k)]

RECURSIVE Flatten(_)
\* ''.join(parts)
Flatten(parts) ==
    IF parts = <<>> THEN <<>> ELSE Head(parts) \o Flatten(Tail(parts))

(* ------------------------------- Node --------------------------------- *)

\* Node.__init__
Node(freq, symbol, left, right) ==
    [freq |-> freq, symbol |-> symbol, left |-> left, right |-> right]

\* id(n) of the Nodes of the heap, up to order: `hp` lists the references
\* held by the heap by increasing address
Id(hp, r) == CHOOSE i \in 1..Len(hp) : hp[i] = r

\* __lt__ with the comparison of the weights turned around
Lt_reversed(ns, hp, a, b) ==
    IF ns[a].freq = ns[b].freq
    THEN Id(hp, a) < Id(hp, b)
    ELSE ns[a].freq > ns[b].freq

\* Node.__lt__
Lt(ns, hp, a, b) ==
    IF ns[a].freq = ns[b].freq
    THEN Id(hp, a) < Id(hp, b)
    ELSE ns[a].freq < ns[b].freq

\* the reference heapq.heappop returns: the least Node under __lt__
HeapMin(ns, hp) ==
    CHOOSE r \in Range(hp) : \A o \in Range(hp) \ {r} : Lt(ns, hp, r, o)

\* the heap after heapq.heappop
HeapRemove(hp, r) == SelectSeq(hp, LAMBDA x : x # r)

\* the heap after heapq.heappush of a Node allocated at the p-th lowest
\* address among the Nodes of the heap
HeapInsert(hp, r, p) == SubSeq(hp, 1, p - 1) \o <<r>> \o SubSeq(hp, p, Len(hp))

(* ------------------------ build_frequency_map ------------------------- *)

RECURSIVE build_frequency_map_from(_, _)
build_frequency_map_from(text, freq) ==
    IF text = <<>> THEN freq
    ELSE LET ch == <<Head(text)>>
             n  == IF HasKey(freq, ch) THEN Get(freq, ch) ELSE 0
         IN build_frequency_map_from(Tail(text), DictSet(freq, ch, n + 1))

build_frequency_map(text) == build_frequency_map_from(text, <<>>)

(* --------------------------- generate_codes --------------------------- *)

\* path or '0'
PathOrZero(path) == IF path = <<>> THEN <<"0">> ELSE path

RECURSIVE dfs_same_branch(_, _, _, _)
\* dfs with the right branch labelled like the left one
dfs_same_branch(ns, node, path, codes) ==
    IF node = NoRef THEN codes
    ELSE IF ns[node].symbol # None
            /\ ns[node].left = NoRef /\ ns[node].right = NoRef
    THEN DictSet(codes, ns[node].symbol, PathOrZero(path))
    ELSE dfs_same_branch(ns, ns[node].right, Append(path, "0"),
             dfs_same_branch(ns, ns[node].left, Append(path, "0"), codes))

RECURSIVE dfs(_, _, _, _)
dfs(ns, node, path, codes) ==
    IF node = NoRef THEN codes
    ELSE IF ns[node].symbol # None
            /\ ns[node].left = NoRef /\ ns[node].right = NoRef
    THEN DictSet(codes, ns[node].symbol, PathOrZero(path))
    ELSE dfs(ns, ns[node].right, Append(path, "1"),
             dfs(ns, ns[node].left, Append(path, "0"), codes))

generate_codes(ns, root) == dfs(ns, root, <<>>, <<>>)

(* ----------------------------- encode_text ---------------------------- *)

\* codes[ch] for every ch of text, joined
encode_text(text, codes) ==
    Flatten([i \in 1..Len(text) |-> Get(codes, <<text[i]>>)])

(* --------------------- bits_to_bytes, bytes_to_bits ------------------- *)

BitVal(c) == IF c = "1" THEN 1 ELSE 0

RECURSIVE ParseBinary(_)
\* int(byte, 2)
ParseBinary(bs) ==
    IF bs = <<>> THEN 0
    ELSE 2 * ParseBinary(SubSeq(bs, 1, Len(bs) - 1)) + BitVal(bs[Len(bs)])

\* '0' * n
Zeros(n) == [i \in 1..n |-> "0"]

\* the padding count without the outer % 8
PaddingOf_unreduced(bitstring) == 8 - (Len(bitstring) % 8)

\* the padding count of bits_to_bytes
PaddingOf(bitstring) == (8 - (Len(bitstring) % 8)) % 8

\* bits_to_bytes: <<bytes, padding>>
bits_to_bytes(bitstring) ==
    LET padding == PaddingOf(bitstring)
        bitstring_padded == bitstring \o Zeros(padding)
        b == [k \in 1..(Len(bitstring_padded) \div 8) |->
                 ParseBinary(SubSeq(bitstring_padded, 8 * (k - 1) + 1,
                     IF 8 * k < Len(bitstring_padded)
                     THEN 8 * k ELSE Len(bitstring_padded)))]
    IN <<b, padding>>

RECURSIVE ToBinary(_)
\* the binary digits of n, without leading zeros ('' for 0)
ToBinary(n) ==
    IF n = 0 THEN <<>>
    ELSE Append(ToBinary(n \div 2), IF n % 2 = 1 THEN "1" ELSE "0")

\* f'{byte:b}': no leading zeros
FormatByte_unpadded(byte) == IF byte = 0 THEN <<"0">> ELSE ToBinary(byte)

\* f'{byte:08b}'
FormatByte(byte) ==
    LET d == ToBinary(byte)
    IN IF Len(d) < 8 THEN Zeros(8 - Len(d)) \o d ELSE d

\* bytes_to_bits
bytes_to_bits(b) == Flatten([i \in 1..Len(b) |-> FormatByte(b[i])])

(* ------------------- str.encode / bytes.decode (UTF-8) ---------------- *)

\* the characters of the model and their code points
CharCodes ==
    << <<"\t", 9>>, <<"\n", 10>>, <<"\r", 13>>, <<" ", 32>>, <<"\"", 34>>,
       <<",", 44>>, <<"0", 48>>, <<"1", 49>>, <<"2", 50>>, <<"3", 51>>,
       <<"4", 52>>, <<"5", 53>>, <<"6", 54>>, <<"7", 55>>, <<"8", 56>>,
       <<"9", 57>>, <<":", 58>>, <<"\\", 92>>, <<"a", 97>>, <<"b", 98>>,
       <<"c", 99>>, <<"d", 100>>, <<"e", 101>>, <<"g", 103>>, <<"i", 105>>,
       <<"n", 110>>, <<"o", 111>>, <<"p", 112>>, <<"r", 114>>, <<"s", 115>>,
       <<"{", 123>>, <<"}", 125>> >>

\* ord(c)
Ord(c) == CharCodes[CHOOSE i \in 1..Len(CharCodes) : CharCodes[i][1] = c][2]

\* a character that is no JSON syntax, standing for every other ASCII one
OtherChar == "?"

\* chr(b) for b < 128
Chr(b) ==
    IF \E i \in 1..Len(CharCodes) : CharCodes[i][2] = b
    THEN CharCodes[CHOOSE i \in 1..Len(CharCodes) : CharCodes[i][2] = b][1]
    ELSE OtherChar

\* s.encode('utf-8'), for the ASCII characters of the model
Utf8Encode(s) == [i \in 1..Len(s) |-> Ord(s[i])]

\* whether b.decode('utf-8') succeeds; a byte of 128 or more is taken to
\* be malformed (UnicodeDecodeError) and where it is not, it is a
\* character outside every JSON token, which json.loads rejects as well
Utf8Valid(b) == \A i \in 1..Len(b) : b[i] < 128

\* b.decode('utf-8')
Utf8Decode(b) == [i \in 1..Len(b) |-> Chr(b[i])]

(* ------------------------------ json.dumps ---------------------------- *)

\* Python values as the json module sees them
PyStr(s) == [t |-> "str", v |-> s]

PyInt(n) == [t |-> "int", v |-> n]

PyDict(d) == [t |-> "dict", v |-> d]

PyNone == [t |-> "none", v |-> 0]

\* a dict of str values as a dict of tagged values
StrDict(d) == [i \in 1..Len(d) |-> <<d[i][1], PyStr(d[i][2])>>]

\* the str "codes" and the str "padding"
KeyCodes == <<"c", "o", "d", "e", "s">>

KeyPadding == <<"p", "a", "d", "d", "i", "n", "g">>

Digits == <<"0", "1", "2", "3", "4", "5", "6", "7", "8", "9">>

RECURSIVE IntToStr(_)
\* str(n) for n >= 0
IntToStr(n) ==
    IF n < 10 THEN <<Digits[n + 1]>>
    ELSE Append(IntToStr(n \div 10), Digits[(n % 10) + 1])

RECURSIVE EscapeStr(_)
\* the JSON escapes of the characters of the model
EscapeStr(s) ==
    IF s = <<>> THEN <<>>
    ELSE (IF Head(s) = "\"" THEN <<"\\", "\"">>
          ELSE IF Head(s) = "\\" THEN <<"\\", "\\">>
          ELSE IF Head(s) = "\n" THEN <<"\\", "n">>
          ELSE IF Head(s) = "\r" THEN <<"\\", "r">>
          ELSE IF Head(s) = "\t" THEN <<"\\", "t">>
          ELSE <<Head(s)>>) \o EscapeStr(Tail(s))

DumpsStr(s) == <<"\"">> \o EscapeStr(s) \o <<"\"">>

RECURSIVE Dumps(_)
RECURSIVE DumpsItems(_)
\* the items of a dict, joined with ', ' and each key: value with ': '
DumpsItems(d) ==
    IF d = <<>> THEN <<>>
    ELSE DumpsStr(d[1][1]) \o <<":", " ">> \o Dumps(d[1][2])
         \o (IF Len(d) > 1 THEN <<",", " ">> ELSE <<>>)
         \o DumpsItems(Tail(d))

\* json.dumps(x, ensure_ascii=False)
Dumps(x) ==
    IF x.t = "str" THEN DumpsStr(x.v)
    ELSE IF x.t = "int" THEN IntToStr(x.v)
    ELSE <<"{">> \o DumpsItems(x.v) \o <<"}">>

(* ------------------------------ json.loads ---------------------------- *)
\* A parse result is [ok, val, next]: whether a value was read, the value,
\* and the index after it.  The grammar is that of objects, strings and
\* non-negative integers, which is what the headers given to
\* decompress_file are made of; every other text is a JSONDecodeError.

ParseFail == [ok |-> FALSE, val |-> PyNone, next |-> 0]

ParseOk(val, next) == [ok |-> TRUE, val |-> val, next |-> next]

IsWs(c) == c \in {" ", "\t", "\n", "\r"}

IsDigit(c) == c \in Range(Digits)

DigitVal(c) == (CHOOSE i \in 1..10 : Digits[i] = c) - 1

RECURSIVE SkipWs(_, _)
SkipWs(s, i) == IF i <= Len(s) /\ IsWs(s[i]) THEN SkipWs(s, i + 1) ELSE i

RECURSIVE ParseStrBody(_, _, _)
\* the characters of a string up to its closing quote, from index i on
ParseStrBody(s, i, acc) ==
    IF i > Len(s) THEN ParseFail
    ELSE IF s[i] = "\"" THEN ParseOk(PyStr(acc), i + 1)
    ELSE IF s[i] = "\\"
    THEN IF i + 1 > Len(s) THEN ParseFail
         ELSE IF s[i + 1] \in {"\"", "\\"}
         THEN ParseStrBody(s, i + 2, Append(acc, s[i + 1]))
         ELSE IF s[i + 1] = "n" THEN ParseStrBody(s, i + 2, Append(acc, "\n"))
         ELSE IF s[i + 1] = "r" THEN ParseStrBody(s, i + 2, Append(acc, "\r"))
         ELSE IF s[i + 1] = "t" THEN ParseStrBody(s, i + 2, Append(acc, "\t"))
         ELSE ParseFail
    ELSE IF s[i] \in {"\t", "\n", "\r"} THEN ParseFail
    ELSE ParseStrBody(s, i + 1, Append(acc, s[i]))

RECURSIVE ParseDigits(_, _, _)
ParseDigits(s, i, n) ==
    IF i <= Len(s) /\ IsDigit(s[i])
    THEN ParseDigits(s, i + 1, 10 * n + DigitVal(s[i]))
    ELSE ParseOk(PyInt(n), i)

\* a number starts at i; a leading 0 is a number of its own
ParseInt(s, i) ==
    IF s[i] = "0" THEN ParseOk(PyInt(0), i + 1) ELSE ParseDigits(s, i, 0)

RECURSIVE ParseValue(_, _)
RECURSIVE ParseMembers(_, _, _)
\* after a member: "," and the next member, or "}"; e is the index of the
\* first character after the member's value that is no whitespace
AfterMember(s, e, d) ==
    IF e > Len(s) THEN ParseFail
    ELSE IF s[e] = "," THEN ParseMembers(s, e + 1, d)
    ELSE IF s[e] = "}" THEN ParseOk(PyDict(d), e + 1)
    ELSE ParseFail

\* the member's value was parsed with result v: d[key] = value
AfterValue(s, key, v, acc) ==
    IF ~v.ok THEN ParseFail
    ELSE AfterMember(s, SkipWs(s, v.next), DictSet(acc, key, v.val))

\* after the member's key: ":" at index c, then the value
AfterKey(s, key, c, acc) ==
    IF c > Len(s) \/ s[c] # ":" THEN ParseFail
    ELSE AfterValue(s, key, ParseValue(s, c + 1), acc)

\* the member's key was parsed with result k
MemberKey(s, k, acc) ==
    IF ~k.ok THEN ParseFail
    ELSE AfterKey(s, k.val.v, SkipWs(s, k.next), acc)

\* a member, or the "}" of the empty object, at index j
MemberAt(s, j, acc) ==
    IF j > Len(s) THEN ParseFail
    ELSE IF s[j] = "}" /\ acc = <<>> THEN ParseOk(PyDict(acc), j + 1)
    ELSE IF s[j] # "\"" THEN ParseFail
    ELSE MemberKey(s, ParseStrBody(s, j + 1, <<>>), acc)

\* the members of an object from index i on, after "{" or after ","
ParseMembers(s, i, acc) == MemberAt(s, SkipWs(s, i), acc)

\* a value at index j
ValueAt(s, j) ==
    IF j > Len(s) THEN ParseFail
    ELSE IF s[j] = "\"" THEN ParseStrBody(s, j + 1, <<>>)
    ELSE IF s[j] = "{" THEN ParseMembers(s, j + 1, <<>>)
    ELSE IF IsDigit(s[j]) THEN ParseInt(s, j)
    ELSE ParseFail

ParseValue(s, i) == ValueAt(s, SkipWs(s, i))

\* the end of json.loads: nothing but whitespace after the value
LoadsEnd(s, r) ==
    IF r.ok /\ SkipWs(s, r.next) = Len(s) + 1
    THEN [ok |-> TRUE, val |-> r.val]
    ELSE [ok |-> FALSE, val |-> PyNone]

\* json.loads(s): [ok, val]; not ok is a JSONDecodeError
Loads(s) == LoadsEnd(s, ParseValue(s, 1))

(* -------------------- write_huff_file, read_huff_file ----------------- *)

\* n.to_bytes(4, byteorder='big')
ToBytes4(n) ==
    <<(n \div 16777216) % 256, (n \div 65536) % 256, (n \div 256) % 256, n % 256>>

\* int.from_bytes(b, byteorder='big') for four bytes
FromBytes4(b) == ((b[1] * 256 + b[2]) * 256 + b[3]) * 256 + b[4]

\* the dict write_huff_file serialises
HeaderOf(codes, padding) ==
    PyDict(<< <<KeyCodes, PyDict(StrDict(codes))>>, <<KeyPadding, PyInt(padding)>> >>)

\* the bytes of a file with header `header` and payload `payload_bytes`
Container(header, payload_bytes) ==
    LET header_json == Utf8Encode(Dumps(header))
        header_len == Len(header_json)
    IN ToBytes4(header_len) \o header_json \o payload_bytes

\* the bytes write_huff_file writes to outfile
write_huff_file(codes, payload_bytes, padding) ==
    Container(HeaderOf(codes, padding), payload_bytes)

\* read_huff_file on a file of bytes f: [err, header, payload]
read_huff_file(f) ==
    LET header_len_bytes == Take(f, 4)
        header_len == FromBytes4(header_len_bytes)
        header_json == Take(Drop(f, 4), header_len)
        payload == Drop(f, 4 + Len(header_json))
        parsed == Loads(Utf8Decode(header_json))
    IN IF Len(header_len_bytes) < 4
       THEN [err |-> "ValueError: missing header length",
             header |-> PyNone, payload |-> <<>>]
       ELSE IF ~Utf8Valid(header_json)
       THEN [err |-> "UnicodeDecodeError", header |-> PyNone, payload |-> <<>>]
       ELSE IF ~parsed.ok
       THEN [err |-> "JSONDecodeError", header |-> PyNone, payload |-> <<>>]
       ELSE [err |-> "none", header |-> parsed.val, payload |-> payload]

(* -------------------------- decode_bits_to_text ----------------------- *)

\* if padding: bits = bits[:-padding], for an int padding >= 0
StripPadding(bits, padding) ==
    IF padding # 0 THEN DropLast(bits, padding) ELSE bits

RECURSIVE ReverseFrom(_, _)
ReverseFrom(items, rev) ==
    IF items = <<>> THEN rev
    ELSE ReverseFrom(Tail(items),
             IF items[1][2].t = "str"
             THEN DictSet(rev, items[1][2].v, items[1][1])
             ELSE rev)

\* rev = {v: k for k, v in codes.items()}, for the items of a dict of tagged
\* values; an int value is a key that no str `cur` ever equals
ReverseMap(items) == ReverseFrom(items, <<>>)

\* the loop body without `cur = ''`
DecodeLoopBody_noreset(cur, out_chars, bit, rev) ==
    LET c == Append(cur, bit)
    IN IF HasKey(rev, c)
       THEN <<c, Append(out_chars, Get(rev, c))>>
       ELSE <<c, out_chars>>

\* one iteration of `for bit in bits`: <<cur, out_chars>> after it
DecodeLoopBody(cur, out_chars, bit, rev) ==
    LET c == Append(cur, bit)
    IN IF HasKey(rev, c)
       THEN <<<<>>, Append(out_chars, Get(rev, c))>>
       ELSE <<c, out_chars>>

\* the end of decode_bits_to_text: [err, text]
DecodeEnd(cur, out_chars) ==
    IF cur # <<>>
    THEN [err |-> "ValueError: leftover bits", text |-> None]
    ELSE [err |-> "none", text |-> Flatten(out_chars)]

(* ----------------------------- decompress_file ------------------------ *)

\* decompress_file up to the loop of decode_bits_to_text:
\* [err, codes, padding, bits, rev], bits being the padding-stripped ones
DecompressPrepare(f) ==
    LET r == read_huff_file(f)
        header == r.header
        failed(e) == [err |-> e, codes |-> <<>>, padding |-> 0,
                      bits |-> <<>>, rev |-> <<>>]
    IN IF r.err # "none" THEN failed(r.err)
       ELSE IF header.t # "dict" THEN failed("TypeError")
       ELSE IF ~HasKey(header.v, KeyCodes) THEN failed("KeyError")
       ELSE LET codes == Get(header.v, KeyCodes)
                padding == IF HasKey(header.v, KeyPadding)
                           THEN Get(header.v, KeyPadding) ELSE PyInt(0)
                truthy == IF padding.t = "int" THEN padding.v # 0
                          ELSE padding.v # <<>>
                bits == bytes_to_bits(r.payload)
            IN IF truthy /\ padding.t # "int" THEN failed("TypeError")
               ELSE IF codes.t # "dict" THEN failed("AttributeError")
               ELSE IF \E i \in 1..Len(codes.v) : codes.v[i][2].t = "dict"
               THEN failed("TypeError")
               ELSE LET p == IF padding.t = "int" THEN padding.v ELSE 0
                    IN [err |-> "none", codes |-> codes.v, padding |-> p,
                        bits |-> StripPadding(bits, p),
                        rev |-> ReverseMap(codes.v)]

(* ------------------------------- state -------------------------------- *)

VARIABLES
    pc,             \* position of the program
    text,           \* the contents of the input text file
    freq_map,       \* compress_file: build_frequency_map(text)
    push_i,         \* build_huffman_tree: index of the next item to push
    nodes,          \* build_huffman_tree: the Node objects created so far
    heap,           \* build_huffman_tree: the heap, by increasing id()
    codes,          \* compress_file: generate_codes(root)
    bitstring,      \* compress_file: encode_text(text, codes)
    payload_bytes,  \* compress_file: the packed payload
    padding,        \* compress_file: the padding count
    file,           \* the bytes of the .huff file written
    runs,           \* how many times compress_file ran on the text
    prev_codes,     \* the code table of the run before
    tamper,         \* how the file given to decompress_file was derived
    infile,         \* the bytes of the file given to decompress_file
    dcodes,         \* decompress_file: header['codes']
    dpadding,       \* decompress_file: header.get('padding', 0)
    bits,           \* decode_bits_to_text: bits, padding removed
    rev,            \* decode_bits_to_text: the reverse map
    bit_i,          \* decode_bits_to_text: index of the next bit
    cur,            \* decode_bits_to_text: the candidate
    out_chars,      \* decode_bits_to_text: the symbols emitted
    out_text,       \* the text written by decompress_file, None before
    err             \* the exception that ended the operation, "none" if none

vars == <<pc, text, freq_map, push_i, nodes, heap, codes, bitstring,
          payload_bytes, padding, file, runs, prev_codes, tamper, infile,
          dcodes, dpadding, bits, rev, bit_i, cur, out_chars, out_text, err>>

encVars == <<freq_map, push_i, nodes, heap, codes, bitstring, payload_bytes,
             padding, file, runs, prev_codes>>

decVars == <<tamper, infile, dcodes, dpadding, bits, rev, bit_i, cur,
             out_chars, out_text>>

\* how many times compress_file is run on one text
MaxRuns == 2

\* the input texts
Texts == UNION {[1..n -> Alphabet] : n \in 0..MaxLen} \cup {Abracadabra}

\* the bitstrings given to bits_to_bytes on its own
BitStrings == UNION {[1..n -> {"0", "1"}] : n \in 0..MaxBits}

Blank ==
    /\ freq_map = <<>> /\ push_i = 1 /\ nodes = <<>> /\ heap = <<>>
    /\ codes = <<>> /\ payload_bytes = <<>> /\ padding = 0
    /\ file = <<>> /\ runs = 0 /\ prev_codes = <<>>
    /\ tamper = "none" /\ infile = <<>> /\ dcodes = <<>> /\ dpadding = 0
    /\ bits = <<>> /\ rev = <<>> /\ bit_i = 1 /\ cur = <<>>
    /\ out_chars = <<>> /\ out_text = None /\ err = "none"

Init ==
    /\ pc = "start"
    /\ text \in Texts
    /\ bitstring = <<>>
    /\ Blank

(* ----------------------------- compress_file -------------------------- *)

\* compress_file reads the text and counts; build_huffman_tree begins
CompressStart ==
    /\ pc = "start" \/ (pc = "written" /\ runs < MaxRuns)
    /\ pc' = "push"
    /\ freq_map' = build_frequency_map(text)
    /\ push_i' = 1 /\ nodes' = <<>> /\ heap' = <<>>
    /\ runs' = runs + 1
    /\ prev_codes' = codes
    /\ UNCHANGED <<text, codes, bitstring, payload_bytes, padding, file, err>>
    /\ UNCHANGED decVars

\* for sym, f in freq_map.items(): heapq.heappush(heap, Node(f, symbol=sym))
HeapPushLeaf ==
    /\ pc = "push" /\ push_i <= Len(freq_map)
    /\ \E p \in 1..(Len(heap) + 1) :
          /\ nodes' = Append(nodes, Node(freq_map[push_i][2],
                                         freq_map[push_i][1], NoRef, NoRef))
          /\ heap' = HeapInsert(heap, Len(nodes) + 1, p)
    /\ push_i' = push_i + 1
    /\ UNCHANGED <<pc, text, freq_map, codes, bitstring, payload_bytes,
                   padding, file, runs, prev_codes, err>>
    /\ UNCHANGED decVars

\* the arena after the edge case: the placeholder Node(0, symbol="") and
\* the parent of the sole Node and the placeholder
SingleSymbolNodes(ns, sole) ==
    ns \o <<Node(0, <<>>, NoRef, NoRef),
            Node(ns[sole].freq, None, sole, Len(ns) + 1)>>

\* if len(heap) == 1: the edge case of one unique symbol
SingleSymbol ==
    /\ pc = "push" /\ push_i > Len(freq_map)
    /\ Len(heap) = 1
    /\ LET sole == HeapMin(nodes, heap)
       IN /\ nodes' = SingleSymbolNodes(nodes, sole)
          /\ heap' = HeapInsert(HeapRemove(heap, sole), Len(nodes) + 2, 1)
    /\ pc' = "merge"
    /\ UNCHANGED <<text, freq_map, push_i, codes, bitstring, payload_bytes,
                   padding, file, runs, prev_codes, err>>
    /\ UNCHANGED decVars

\* the program is at `while len(heap) > 1`
AtMergeLoop ==
    \/ pc = "merge"
    \/ pc = "push" /\ push_i > Len(freq_map) /\ Len(heap) # 1

\* one iteration of `while len(heap) > 1`
Merge ==
    /\ AtMergeLoop
    /\ Len(heap) > 1
    /\ LET a == HeapMin(nodes, heap)
           heap1 == HeapRemove(heap, a)
           b == HeapMin(nodes, heap1)
           heap2 == HeapRemove(heap1, b)
       IN \E p \in 1..(Len(heap2) + 1) :
             /\ nodes' = Append(nodes, Node(nodes[a].freq + nodes[b].freq,
                                            None, a, b))
             /\ heap' = HeapInsert(heap2, Len(nodes) + 1, p)
    /\ pc' = "merge"
    /\ UNCHANGED <<text, freq_map, push_i, codes, bitstring, payload_bytes,
                   padding, file, runs, prev_codes, err>>
    /\ UNCHANGED decVars

\* build_huffman_tree returns; the rest of compress_file up to the write
CompressFinish ==
    /\ AtMergeLoop
    /\ Len(heap) <= 1
    /\ LET root == IF heap # <<>> THEN heap[1] ELSE NoRef
           cs == generate_codes(nodes, root)
           bs == encode_text(text, cs)
           packed == bits_to_bytes(bs)
       IN /\ codes' = cs
          /\ bitstring' = bs
          /\ payload_bytes' = packed[1]
          /\ padding' = packed[2]
          /\ file' = write_huff_file(cs, packed[1], packed[2])
    /\ pc' = "written"
    /\ nodes' = <<>> /\ heap' = <<>> /\ push_i' = 1
    /\ UNCHANGED <<text, freq_map, runs, prev_codes, err>>
    /\ UNCHANGED decVars

(* ---------------------------- decompress_file ------------------------- *)

\* the header length of the file written
WrittenHeaderLen == FromBytes4(Take(file, 4))

\* the files given to decompress_file, each with how it was derived from
\* the file written
InputFiles ==
    {<<"genuine", file>>, <<"short", Take(file, 3)>>}
    \cup (IF Len(payload_bytes) >= 1
          THEN {<<"truncated", DropLast(file, 1)>>} ELSE {})
    \cup {<<"padding", Container(HeaderOf(codes, p), payload_bytes)>> :
              p \in (0..MaxPadding) \ {padding}}
    \cup {<<"nopadding", Container(PyDict(<< <<KeyCodes, PyDict(StrDict(codes))>> >>),
                                   payload_bytes)>>}
    \cup {<<"nocodes", Container(PyDict(<< <<KeyPadding, PyInt(padding)>> >>),
                                 payload_bytes)>>}
    \cup {<<"hdrlen", ToBytes4(n) \o Drop(file, 4)>> :
              n \in {WrittenHeaderLen - 1, WrittenHeaderLen + 1,
                     WrittenHeaderLen + Len(payload_bytes) + 1}}

\* decompress_file reads the file and enters decode_bits_to_text
DecompressStart ==
    /\ pc = "written"
    /\ \E inp \in InputFiles :
          LET d == DecompressPrepare(inp[2])
          IN /\ tamper' = inp[1]
             /\ infile' = inp[2]
             /\ err' = d.err
             /\ dcodes' = d.codes
             /\ dpadding' = d.padding
             /\ bits' = d.bits
             /\ rev' = d.rev
             /\ pc' = IF d.err = "none" THEN "decode" ELSE "failed"
    /\ bit_i' = 1 /\ cur' = <<>> /\ out_chars' = <<>>
    /\ UNCHANGED <<text, out_text>>
    /\ UNCHANGED encVars

\* one iteration of `for bit in bits`
DecodeStep ==
    /\ pc = "decode" /\ bit_i <= Len(bits)
    /\ LET r == DecodeLoopBody(cur, out_chars, bits[bit_i], rev)
       IN cur' = r[1] /\ out_chars' = r[2]
    /\ bit_i' = bit_i + 1
    /\ UNCHANGED <<pc, text, tamper, infile, dcodes, dpadding, bits, rev,
                   out_text, err>>
    /\ UNCHANGED encVars

\* the end of decode_bits_to_text and of decompress_file
DecodeFinish ==
    /\ pc = "decode" /\ bit_i > Len(bits)
    /\ LET r == DecodeEnd(cur, out_chars)
       IN /\ err' = r.err
          /\ out_text' = r.text
          /\ pc' = IF r.err = "none" THEN "decoded" ELSE "failed"
    /\ UNCHANGED <<text, tamper, infile, dcodes, dpadding, bits, rev, bit_i,
                   cur, out_chars>>
    /\ UNCHANGED encVars

Next ==
    \/ CompressStart
    \/ HeapPushLeaf
    \/ SingleSymbol
    \/ Merge
    \/ CompressFinish
    \/ DecompressStart
    \/ DecodeStep
    \/ DecodeFinish

Spec == Init /\ [][Next]_vars

(* ------------- bits_to_bytes and bytes_to_bits on their own ----------- *)

InitBits ==
    /\ pc = "bits"
    /\ text = <<>>
    /\ bitstring \in BitStrings
    /\ Blank

\* payload_bytes, padding = bits_to_bytes(bitstring)
PackBits ==
    /\ pc = "bits"
    /\ payload_bytes' = bits_to_bytes(bitstring)[1]
    /\ padding' = bits_to_bytes(bitstring)[2]
    /\ pc' = "packed"
    /\ UNCHANGED <<text, freq_map, push_i, nodes, heap, codes, bitstring,
                   file, runs, prev_codes, err>>
    /\ UNCHANGED decVars

\* bits = bytes_to_bits(payload)
UnpackBits ==
    /\ pc = "packed"
    /\ bits' = bytes_to_bits(payload_bytes)
    /\ dpadding' = padding
    /\ pc' = "unpacked"
    /\ UNCHANGED <<text, tamper, infile, dcodes, rev, bit_i, cur, out_chars,
                   out_text, err>>
    /\ UNCHANGED encVars

\* if padding: bits = bits[:-padding]
StripBits ==
    /\ pc = "unpacked"
    /\ bits' = StripPadding(bits, dpadding)
    /\ pc' = "stripped"
    /\ UNCHANGED <<text, tamper, infile, dcodes, dpadding, rev, bit_i, cur,
                   out_chars, out_text, err>>
    /\ UNCHANGED encVars

NextBits == PackBits \/ UnpackBits \/ StripBits

SpecBits == InitBits /\ [][NextBits]_vars

(* ------------------------------ properties ---------------------------- *)

\* compress_file has returned
Written == pc \in {"written", "decode", "decoded", "failed"}

\* decompress_file has ended, with a text or with an exception
Ended == pc \in {"decoded", "failed"}

IsPrefix(u, w) == Len(u) <= Len(w) /\ SubSeq(w, 1, Len(u)) = u

\* the exceptions of reading the container and its header
FormatErrors ==
    {"ValueError: missing header length", "UnicodeDecodeError",
     "JSONDecodeError", "TypeError", "KeyError", "AttributeError"}

\* the exception of decode_bits_to_text
CorruptDataError == "ValueError: leftover bits"

\* C1: decoding the container written for a non-empty text returns the
\* text, whichever way ties between equal weights were broken
C1_RoundTrip ==
    (Ended /\ tamper = "genuine" /\ text # <<>>)
        => (pc = "decoded" /\ err = "none" /\ out_text = text)

C1_Witness ==
    /\ pc = "decoded" /\ tamper = "genuine"
    /\ text = Abracadabra /\ out_text = text

\* C2: in the code table of a non-empty text no code is empty and no code
\* is a prefix of the code of another entry
C2_PrefixFree ==
    (Written /\ text # <<>>)
        => /\ codes # <<>>
           /\ \A i \in 1..Len(codes) : codes[i][2] # <<>>
           /\ \A i, j \in 1..Len(codes) :
                 i # j => ~IsPrefix(codes[i][2], codes[j][2])

C2_Witness ==
    /\ pc = "written" /\ Len(codes) = 3
    /\ \E i, j \in 1..3 : Len(codes[i][2]) < Len(codes[j][2])

\* C3: compress_file on an empty text ends in an EmptyInputError, and
\* leaves no code table and no container
C3_EmptyInputRejected ==
    (text = <<>> /\ pc \notin {"start", "push", "merge"})
        => (err = "EmptyInputError" /\ codes = <<>> /\ file = <<>>)

\* C4: the code table of a text of one distinct symbol has one entry, for
\* that symbol, with a code of at least one bit, and no entry for the
\* placeholder leaf
C4_SingleSymbolOneEntry ==
    (Written /\ Cardinality(Range(text)) = 1)
        => /\ Len(codes) = 1
           /\ codes[1][1] = <<text[1]>>
           /\ Len(codes[1][2]) >= 1
           /\ ~HasKey(codes, <<>>)

\* C5: two runs of compress_file on the same text, hence on the same
\* frequency table, end with the same code table
C5_Deterministic ==
    (pc = "written" /\ runs = 2) => AsMap(codes) = AsMap(prev_codes)

\* C6: decoding a container whose last payload byte was removed ends in
\* a failure and writes no text
C6_TruncationDetected ==
    (Ended /\ tamper = "truncated")
        => (pc = "failed" /\ err # "none" /\ out_text = None)

RECURSIVE Pow2(_)
\* 2^n
Pow2(n) == IF n = 0 THEN 1 ELSE 2 * Pow2(n - 1)

\* C7: bits_to_bytes returns a padding count in 0..7 that accounts for the
\* length of the bitstring, the padding bits are zero, and bytes_to_bits
\* with the padding stripped gives the bitstring back
C7_PaddingRoundTrip ==
    /\ pc \in {"packed", "unpacked", "stripped"}
          => /\ padding \in 0..7
             /\ 8 * Len(payload_bytes) - padding = Len(bitstring)
             /\ padding > 0
                   => payload_bytes[Len(payload_bytes)] % Pow2(padding) = 0
    /\ pc = "stripped" => bits = bitstring

C7_Witness ==
    /\ pc = "stripped" /\ Len(bitstring) = 9 /\ padding = 7
    /\ "1" \in Range(bitstring) /\ bits = bitstring

\* the header the claim asks for: the declared length fits the file and
\* the header is a record of codes and an integer padding in 0..7
HeaderWellFormed(f) ==
    /\ Len(f) >= 4
    /\ FromBytes4(Take(f, 4)) <= Len(f) - 4
    /\ LET h == read_huff_file(f)
       IN /\ h.err = "none"
          /\ h.header.t = "dict"
          /\ HasKey(h.header.v, KeyCodes)
          /\ Get(h.header.v, KeyCodes).t = "dict"
          /\ HasKey(h.header.v, KeyPadding)
          /\ Get(h.header.v, KeyPadding).t = "int"
          /\ Get(h.header.v, KeyPadding).v \in 0..7

\* C8: a container whose header is not well formed ends decoding with a
\* format error and no text, and its padding is never used on the bits
C8_HeaderValidated ==
    (pc \in {"decode", "decoded", "failed"} /\ ~HeaderWellFormed(infile))
        => (pc = "failed" /\ err \in FormatErrors /\ out_text = None)

\* C9: with two symbols or more, a symbol with a strictly higher count
\* has a code no longer than that of a symbol with a lower count; the
\* table of "abracadabra" has 5 entries
C9_FrequencyOrdering ==
    (Written /\ Len(freq_map) >= 2)
        => /\ \A x, y \in Keys(freq_map) :
                 Get(freq_map, x) > Get(freq_map, y)
                     => Len(Get(codes, x)) <= Len(Get(codes, y))
           /\ text = Abracadabra => Len(codes) = 5

C9_Witness ==
    /\ pc = "written" /\ text = Abracadabra /\ Len(codes) = 5
    /\ Len(Get(codes, <<"a">>)) < Len(Get(codes, <<"c">>))

\* the codes of the symbols emitted so far, joined
EmittedCodes == Flatten([i \in 1..Len(out_chars) |-> Get(dcodes, out_chars[i]).v])

\* C10: while decoding, the codes of the emitted symbols followed by the
\* candidate are the bits consumed, and the candidate is no code of the
\* table; at the end the failure is CorruptDataError exactly when the
\* candidate is not empty, and otherwise the codes of the emitted symbols
\* are the padding-stripped bits
C10_DecodeStateMachine ==
    /\ pc = "decode" \/ (Ended /\ err \notin FormatErrors)
          => /\ EmittedCodes \o cur = SubSeq(bits, 1, bit_i - 1)
             /\ \A i \in 1..Len(dcodes) : dcodes[i][2].v # cur
    /\ (Ended /\ err \notin FormatErrors)
          => /\ bit_i = Len(bits) + 1
             /\ (err = CorruptDataError) <=> (cur # <<>>)
             /\ (pc = "failed") <=> (cur # <<>>)
             /\ pc = "decoded"
                   => (EmittedCodes = bits /\ out_text = Flatten(out_chars))

C10_Witness ==
    /\ pc = "failed" /\ err = CorruptDataError
    /\ out_chars # <<>> /\ cur # <<>>

====
